---- MODULE Spec2Model ----
(***************************************************************************)
(* Token lifecycle of tap_personio.auth.PersonioAuthenticator.             *)
(*                                                                         *)
(* The authenticator holds access_token, expires_in and last_refreshed.    *)
(* update_access_token (the spec's refresh()) posts the credentials to     *)
(* the auth endpoint and stores the answer; the inherited members          *)
(* is_token_valid (isValid()) and auth_headers (getToken()) are not part   *)
(* of src/ and are modelled from the spec's contract (section 4.1).        *)
(*                                                                         *)
(* Optional values (Python None) are sequences of length 0 or 1.           *)
(*                                                                         *)
(* The class is a singleton shared by all streams and holds no lock, and   *)
(* update_access_token waits inside requests.post.  A call is therefore a  *)
(* sequence of steps: the request (lines 34-40), the answer (lines 36-49)  *)
(* and each of the three stores (lines 50, 51, 58).  Spec runs these steps *)
(* with one thread, the single-threaded call model of the spec (section    *)
(* 5), over all answers of the endpoint; SpecConc runs the same steps with *)
(* two threads, one per stream, whose steps interleave freely.             *)
(***************************************************************************)
EXTENDS Integers, Sequences, FiniteSets, TLC

\* ------------------------------------------------------------------ bounds
MaxTime == 2
MaxExpires == 2
DefaultExpiration == 1
MaxInst == 2
MaxRefreshes == 2

None == <<>>
Some(v) == <<v>>

Streams == {"employees", "absences"}
Tokens == {"T1", "T2"}
Times == 0..MaxTime
\* The threads that use the shared authenticator, and the stream each syncs
\* when both run.
Callers == {"c1", "c2"}
StreamOf == [c1 |-> "employees", c2 |-> "absences"]

\* ------------------------------------------------------- the auth response
\* What the POST of lines 36-40 can come back with: a transport failure
\* (requests.post raises), or an HTTP response with a status and a body.
\* A body is non-JSON text, or a JSON object whose "data" key is missing,
\* is an empty object, or holds "token" (data says which; with the key
\* there, token is its value, None for a JSON null).  "expires_in" is a
\* top-level key:
\* has_expires_in says that the object has the key, expires_in is its value
\* (None with the key present is a JSON null).
TextBody ==
    [json |-> FALSE, data |-> "missing", token |-> None,
     has_expires_in |-> FALSE, expires_in |-> None]
NoDataBody ==
    [json |-> TRUE, data |-> "missing", token |-> None,
     has_expires_in |-> FALSE, expires_in |-> None]
EmptyDataBody ==
    [json |-> TRUE, data |-> "empty", token |-> None,
     has_expires_in |-> FALSE, expires_in |-> None]
\* The top-level "expires_in" of a success body: no key, null, or an integer.
ExpiresInKeys ==
    { [has |-> FALSE, value |-> None], [has |-> TRUE, value |-> None] }
    \cup { [has |-> TRUE, value |-> Some(x)] : x \in {0, MaxExpires} }
\* A success body whose data.token is a string, with every expires_in.
StringTokenBodies ==
    { [json |-> TRUE, data |-> "token", token |-> Some(t),
       has_expires_in |-> k.has, expires_in |-> k.value] :
        t \in Tokens, k \in ExpiresInKeys }
\* A success body whose data.token is null, without expires_in or with an
\* integer.
NullTokenBodies ==
    { [json |-> TRUE, data |-> "token", token |-> None,
       has_expires_in |-> k.has, expires_in |-> k.value] :
        k \in { e \in ExpiresInKeys : e.has => e.value = Some(MaxExpires) } }
TokenBodies == StringTokenBodies \cup NullTokenBodies
Bodies == {TextBody, NoDataBody, EmptyDataBody} \cup TokenBodies
Statuses == {200, 401}
\* A failing status comes with an error page, a JSON error object, or (to
\* tell a validated token from an unvalidated one) a body that holds a token.
FailureBodies == {TextBody, NoDataBody} \cup { b \in TokenBodies : ~b.has_expires_in /\ b.token = Some("T2") }
HttpResponses ==
    { [transport |-> "ok", status |-> s, body |-> b] : s \in {200}, b \in Bodies }
    \cup { [transport |-> "ok", status |-> s, body |-> b] : s \in Statuses \ {200}, b \in FailureBodies }
TransportFailures ==
    { [transport |-> k, status |-> 0, body |-> TextBody] : k \in {"ConnectionError", "Timeout"} }
Responses == HttpResponses \cup TransportFailures

\* The state of one authenticator object.
EmptyState == [access_token |-> None, expires_in |-> None, last_refreshed |-> None]

VARIABLES
    auth,                \* auth[i]: the fields of authenticator object i
    ninst,               \* number of authenticator objects constructed so far
    authOf,              \* authOf[s]: the object create_for_stream gave stream s (0: none yet)
    default_expiration,  \* self._default_expiration (configuration)
    now,                 \* utc_now()
    pc,                  \* pc[t]: where caller t stands in update_access_token
    loc,                 \* loc[t]: self and the locals request_time and token_json of caller t
    nref,                \* history: number of POSTs sent, counted anew by a call that overlaps none
    issued,              \* history: data.token of the responses that passed status validation
    cur,                 \* history: the last refresh that ran to its end (line 58)
    call,                \* history: the call caller t is in, or made last
    last,                \* history: the call that ended last, if no other call overlapped it
    overlap              \* history: a call was entered while another was under way

vars == <<auth, ninst, authOf, default_expiration, now, pc, loc, nref, issued, cur, call, last, overlap>>

\* ------------------------------------------------- update_access_token
\* Response.raise_for_status(): HTTPError for a 4xx or 5xx status.
RaisesForStatus(status) == status >= 400 /\ status < 600

\* Variant: raise_for_status() left out (lines 41-45 dropped).
OutcomeNoStatusCheck(resp) ==
    IF resp.transport # "ok" THEN resp.transport
    ELSE IF ~resp.body.json THEN "JSONDecodeError"
    ELSE IF resp.body.data # "token" THEN "KeyError"
    ELSE "ok"

\* Variant: the token looked up leniently
\* (token_json.get("data", {}).get("token")), no KeyError.
OutcomeLenientLookup(resp) ==
    IF resp.transport # "ok" THEN resp.transport
    ELSE IF RaisesForStatus(resp.status)
         THEN (IF resp.body.json THEN "RuntimeError" ELSE "JSONDecodeError")
    ELSE IF ~resp.body.json THEN "JSONDecodeError"
    ELSE "ok"

\* How a call of update_access_token ends for a given answer of the endpoint:
\* "ok", or the kind of the exception that leaves the method.
Outcome(resp) ==
    IF resp.transport # "ok" THEN resp.transport
    ELSE IF RaisesForStatus(resp.status)
         THEN (IF resp.body.json THEN "RuntimeError" ELSE "JSONDecodeError")
    ELSE IF ~resp.body.json THEN "JSONDecodeError"
    ELSE IF resp.body.data # "token" THEN "KeyError"
    ELSE "ok"

\* The text the raised exception carries of the response body (line 44).
CarriesBody(resp) == Outcome(resp) = "RuntimeError"

\* Variant: a token already held is kept (access_token = access_token or ...).
KeepOldToken(st, resp) ==
    IF st.access_token # None THEN st.access_token ELSE resp.body.token

\* Line 50: token_json["data"]["token"], whatever the key holds (a null
\* is stored as None).
NewAccessToken(st, resp) == resp.body.token

\* Variant: 0 as the fallback (token_json.get("expires_in", 0)).
ExpiresInOrZero(st, resp) ==
    IF resp.body.has_expires_in THEN resp.body.expires_in ELSE Some(0)

\* Variant: a falsy expires_in taken as absent
\* (token_json.get("expires_in") or default).
FalsyExpiresIn(st, resp) ==
    IF resp.body.has_expires_in /\ resp.body.expires_in # None
       /\ resp.body.expires_in # Some(0)
    THEN resp.body.expires_in ELSE default_expiration

\* Variant: the default left out (token_json.get("expires_in")).
ExpiresInNoDefault(st, resp) == resp.body.expires_in

\* Variant: an expiry already held is kept when the response has no
\* expires_in key (token_json.get("expires_in", self.expires_in or default)).
ExpiresInMerging(st, resp) ==
    IF resp.body.has_expires_in THEN resp.body.expires_in
    ELSE IF st.expires_in # None THEN st.expires_in
    ELSE default_expiration

\* Line 51, token_json.get("expires_in", self._default_expiration): the value
\* of the key when the object has it (a null is kept as None), the default
\* only when the key is missing.
NewExpiresIn(st, resp) ==
    IF resp.body.has_expires_in THEN resp.body.expires_in ELSE default_expiration

\* Variant: last_refreshed set by the first refresh only.
StaleLastRefreshed(st, request_time) ==
    IF st.last_refreshed # None THEN st.last_refreshed ELSE Some(request_time)

\* Variant: the clock read when the answer is stored (last_refreshed = utc_now()).
LastRefreshedNow(st, request_time) == Some(now)

\* Line 58: request_time, the clock value read at line 34.
NewLastRefreshed(st, request_time) == Some(request_time)

\* ------------------------------------------------------ inherited members
\* isValid(): access_token present and not expired.
is_token_valid(st, t) ==
    IF st.access_token = None THEN FALSE
    ELSE IF st.expires_in = None THEN TRUE
    ELSE IF st.last_refreshed = None THEN FALSE
    ELSE t < st.last_refreshed[1] + st.expires_in[1]

\* ------------------------------------------------------ create_for_stream
\* cls(...) under metaclass=SingletonMeta: the one instance if there is one,
\* else a newly constructed one.  n is the number of objects built so far;
\* the result is the index of the object returned.
SingletonMeta_call(n) == IF n > 0 THEN 1 ELSE n + 1

\* Variant: the metaclass removed, every call constructs an object.
PlainClassCall(n) == IF n < MaxInst THEN n + 1 ELSE n

create_for_stream(n) == SingletonMeta_call(n)

\* ---------------------------------------------------------------- history
\* The call that ended last: the fields and the clock when it was entered,
\* the refresh that had run to its end then, the answer it got and how it ended.
NoCall ==
    [op |-> "none", stream |-> "employees", self |-> 1, pre |-> EmptyState,
     preNow |-> 0, prior |-> None, priorFailed |-> FALSE, resp |-> None,
     arrived |-> None, outcome |-> "ok", ret |-> None, posts |-> 0]

NoLocals == [self |-> 0, request_time |-> None, token_json |-> None, arrived |-> None]
NoConcCall ==
    [op |-> "none", stream |-> "employees", sawValid |-> FALSE, posts |-> 0,
     entry |-> None]

\* A refresh that ran to line 58: the stream and object it ran for, what the
\* response held, and the request time.
Fetched(s, i, resp, request_time) ==
    Some([stream |-> s, self |-> i, token |-> resp.body.token,
          has_expires_in |-> resp.body.has_expires_in,
          expires_in |-> resp.body.expires_in, request_time |-> request_time])

PassedStatus(resp) ==
    resp.transport = "ok" /\ ~RaisesForStatus(resp.status)

\* The call that ended last was a refresh that failed with a token cached.
FailedJustBefore ==
    last.op = "refresh" /\ last.outcome # "ok" /\ cur # None

\* Another caller is inside the authenticator.
OthersInside(t) == \E u \in Callers \ {t} : pc[u] # "idle"

\* What is noted when caller t enters a call: nothing once calls overlap.
Entry(t, s) ==
    IF overlap \/ OthersInside(t) THEN None
    ELSE Some([pre |-> auth[authOf[s]], preNow |-> now, prior |-> cur,
               priorFailed |-> FailedJustBefore])

\* The calls under way when caller t enters one on behalf of stream s.
Entered(t, s, op) ==
    [u \in Callers |->
        IF u = t THEN [op |-> op, stream |-> s, sawValid |-> FALSE, posts |-> 1,
                       entry |-> Entry(t, s)]
        ELSE IF OthersInside(t) THEN [call[u] EXCEPT !.entry = None]
        ELSE call[u]]

\* What is noted when the call of caller t, which sent a POST, ends.
Ended(t, resp, arrived, outcome, ret) ==
    IF call[t].entry = None THEN NoCall ELSE
    [op |-> call[t].op, stream |-> call[t].stream, self |-> loc[t].self,
     pre |-> call[t].entry[1].pre, preNow |-> call[t].entry[1].preNow,
     prior |-> call[t].entry[1].prior, priorFailed |-> call[t].entry[1].priorFailed,
     resp |-> Some(resp), arrived |-> arrived, outcome |-> outcome,
     ret |-> ret, posts |-> 1]

\* ------------------------------------------------------------------- Init
Idle ==
    /\ auth = [i \in 1..MaxInst |-> EmptyState]
    /\ default_expiration \in {None, Some(DefaultExpiration)}
    /\ now = 0
    /\ pc = [t \in Callers |-> "idle"]
    /\ loc = [t \in Callers |-> NoLocals]
    /\ nref = 0
    /\ issued = {}
    /\ cur = None
    /\ call = [t \in Callers |-> NoConcCall]
    /\ last = NoCall
    /\ overlap = FALSE

Init ==
    /\ ninst = 0
    /\ authOf = [s \in Streams |-> 0]
    /\ Idle

\* ---------------------------------------------------------------- actions
\* The clock moves, also while a POST is under way or between two stores.
Tick ==
    /\ now < MaxTime
    /\ now' = now + 1
    /\ UNCHANGED <<auth, ninst, authOf, default_expiration, pc, loc, nref, issued, cur, call, last, overlap>>

CreateForStream(s) ==
    /\ authOf' = [authOf EXCEPT ![s] = create_for_stream(ninst)]
    /\ ninst' = IF create_for_stream(ninst) > ninst THEN create_for_stream(ninst) ELSE ninst
    /\ UNCHANGED <<auth, default_expiration, now, pc, loc, nref, issued, cur, call, last, overlap>>

\* Variant: an in-flight guard, no POST while another caller's is under way.
SendPostUnlessInFlight(t, s, op) ==
    IF \E u \in Callers \ {t} : pc[u] = "inflight"
    THEN /\ call' = [call EXCEPT ![t] = [op |-> op, stream |-> s, sawValid |-> FALSE,
                                         posts |-> 0, entry |-> None]]
         /\ UNCHANGED <<auth, ninst, authOf, default_expiration, now, pc, loc, nref, issued, cur, last, overlap>>
    ELSE /\ IF overlap \/ OthersInside(t) THEN nref < MaxRefreshes ELSE TRUE
         /\ nref' = IF overlap \/ OthersInside(t) THEN nref + 1 ELSE 1
         /\ loc' = [loc EXCEPT ![t] = [self |-> authOf[s], request_time |-> Some(now),
                                       token_json |-> None, arrived |-> None]]
         /\ call' = Entered(t, s, op)
         /\ last' = NoCall
         /\ pc' = [pc EXCEPT ![t] = "inflight"]
         /\ overlap' = (overlap \/ OthersInside(t))
         /\ UNCHANGED <<auth, ninst, authOf, default_expiration, now, issued, cur>>

\* Lines 34-40: request_time = utc_now(), then the POST is sent; nothing is
\* stored and nothing is waited for.  self is the object of stream s.  Calls
\* that run one after another are not bounded; from the call under way when
\* calls begin to overlap on, at most MaxRefreshes POSTs are sent.
SendPost(t, s, op) ==
    /\ IF overlap \/ OthersInside(t) THEN nref < MaxRefreshes ELSE TRUE
    /\ nref' = IF overlap \/ OthersInside(t) THEN nref + 1 ELSE 1
    /\ loc' = [loc EXCEPT ![t] = [self |-> authOf[s], request_time |-> Some(now),
                                  token_json |-> None, arrived |-> None]]
    /\ call' = Entered(t, s, op)
    /\ last' = NoCall
    /\ pc' = [pc EXCEPT ![t] = "inflight"]
    /\ overlap' = (overlap \/ OthersInside(t))
    /\ UNCHANGED <<auth, ninst, authOf, default_expiration, now, issued, cur>>

\* refresh() entered by caller t on the authenticator of stream s.
CallRefresh(t, s) ==
    /\ pc[t] = "idle"
    /\ authOf[s] # 0
    /\ SendPost(t, s, "refresh")

\* getToken() entered by caller t while the token is absent or expired: a
\* refresh first.
CallGetTokenStale(t, s) ==
    /\ pc[t] = "idle"
    /\ authOf[s] # 0
    /\ ~is_token_valid(auth[authOf[s]], now)
    /\ SendPost(t, s, "getToken")

\* getToken() by caller t while the token is valid: the cached token, no
\* request.
CallGetTokenCached(t, s) ==
    /\ pc[t] = "idle"
    /\ authOf[s] # 0
    /\ is_token_valid(auth[authOf[s]], now)
    /\ call' = [u \in Callers |->
                  IF u = t THEN [op |-> "getToken", stream |-> s, sawValid |-> TRUE,
                                 posts |-> 0, entry |-> None]
                  ELSE IF OthersInside(t) THEN [call[u] EXCEPT !.entry = None]
                  ELSE call[u]]
    /\ last' = IF overlap \/ OthersInside(t) THEN NoCall
               ELSE [op |-> "getToken", stream |-> s, self |-> authOf[s],
                     pre |-> auth[authOf[s]], preNow |-> now, prior |-> cur,
                     priorFailed |-> FailedJustBefore, resp |-> None, arrived |-> None,
                     outcome |-> "ok", ret |-> auth[authOf[s]].access_token, posts |-> 0]
    /\ overlap' = (overlap \/ OthersInside(t))
    /\ UNCHANGED <<auth, ninst, authOf, default_expiration, now, pc, loc, nref, issued, cur>>

\* Lines 36-49: the answer arrives (or requests.post raises); an exception
\* ends the call with nothing stored, otherwise token_json is bound.
Receive(t, resp) ==
    /\ pc[t] = "inflight"
    /\ issued' = IF PassedStatus(resp) /\ resp.body.token # None
                 THEN issued \cup {resp.body.token[1]} ELSE issued
    /\ IF Outcome(resp) = "ok"
       THEN /\ pc' = [pc EXCEPT ![t] = "line50"]
            /\ loc' = [loc EXCEPT ![t].token_json = Some(resp), ![t].arrived = Some(now)]
            /\ UNCHANGED <<call, last>>
       ELSE /\ pc' = [pc EXCEPT ![t] = "idle"]
            /\ loc' = [loc EXCEPT ![t] = NoLocals]
            /\ call' = [call EXCEPT ![t].entry = None]
            /\ last' = Ended(t, resp, Some(now), Outcome(resp), None)
    /\ UNCHANGED <<auth, ninst, authOf, default_expiration, now, nref, cur, overlap>>

\* Line 50: self.access_token = token_json["data"]["token"].
Line50(t) ==
    /\ pc[t] = "line50"
    /\ auth' = [auth EXCEPT ![loc[t].self].access_token =
                    NewAccessToken(auth[loc[t].self], loc[t].token_json[1])]
    /\ pc' = [pc EXCEPT ![t] = "line51"]
    /\ UNCHANGED <<ninst, authOf, default_expiration, now, loc, nref, issued, cur, call, last, overlap>>

\* Line 51: self.expires_in = token_json.get("expires_in", default).
Line51(t) ==
    /\ pc[t] = "line51"
    /\ auth' = [auth EXCEPT ![loc[t].self].expires_in =
                    NewExpiresIn(auth[loc[t].self], loc[t].token_json[1])]
    /\ pc' = [pc EXCEPT ![t] = "line58"]
    /\ UNCHANGED <<ninst, authOf, default_expiration, now, loc, nref, issued, cur, call, last, overlap>>

\* Line 58: self.last_refreshed = request_time; the call returns (getToken()
\* with the token the object holds).
Line58(t) ==
    /\ pc[t] = "line58"
    /\ auth' = [auth EXCEPT ![loc[t].self].last_refreshed =
                    NewLastRefreshed(auth[loc[t].self], loc[t].request_time[1])]
    /\ cur' = Fetched(call[t].stream, loc[t].self, loc[t].token_json[1],
                      loc[t].request_time[1])
    /\ last' = Ended(t, loc[t].token_json[1], loc[t].arrived, "ok",
                     IF call[t].op = "getToken" THEN auth[loc[t].self].access_token
                     ELSE None)
    /\ call' = [call EXCEPT ![t].entry = None]
    /\ pc' = [pc EXCEPT ![t] = "idle"]
    /\ loc' = [loc EXCEPT ![t] = NoLocals]
    /\ UNCHANGED <<ninst, authOf, default_expiration, now, nref, issued, overlap>>

\* ------------------------------------------------------- one thread
\* The tap's thread syncs the streams one after another: every call runs to
\* its return or exception before the next is entered.
MainThread == "c1"

Next ==
    \/ Tick
    \/ \E s \in Streams : CreateForStream(s)
    \/ \E s \in Streams : CallRefresh(MainThread, s)
    \/ \E s \in Streams : CallGetTokenStale(MainThread, s)
    \/ \E s \in Streams : CallGetTokenCached(MainThread, s)
    \/ \E resp \in Responses : Receive(MainThread, resp)
    \/ Line50(MainThread)
    \/ Line51(MainThread)
    \/ Line58(MainThread)

Spec == Init /\ [][Next]_vars

\* ------------------------------------------------------- two threads
\* Each stream synced by a thread of its own, both holding the one
\* authenticator: a thread switch can fall between any two steps.
ConcResponses ==
    { [transport |-> "ok", status |-> 200,
       body |-> [json |-> TRUE, data |-> "token", token |-> Some("T1"),
                 has_expires_in |-> TRUE, expires_in |-> Some(MaxExpires)]],
      [transport |-> "ok", status |-> 200,
       body |-> [json |-> TRUE, data |-> "token", token |-> Some("T2"),
                 has_expires_in |-> FALSE, expires_in |-> None]],
      [transport |-> "ok", status |-> 401, body |-> NoDataBody] }

ConcInit ==
    /\ ninst = 1
    /\ authOf = [s \in Streams |-> 1]
    /\ Idle

ConcNext ==
    \/ Tick
    \/ \E t \in Callers : CallRefresh(t, StreamOf[t])
    \/ \E t \in Callers : CallGetTokenStale(t, StreamOf[t])
    \/ \E t \in Callers : CallGetTokenCached(t, StreamOf[t])
    \/ \E t \in Callers, resp \in ConcResponses : Receive(t, resp)
    \/ \E t \in Callers : Line50(t)
    \/ \E t \in Callers : Line51(t)
    \/ \E t \in Callers : Line58(t)

SpecConc == ConcInit /\ [][ConcNext]_vars

\* ----------------------------------------------------------------- claims
\* No caller is inside the authenticator.
AllIdle == \A t \in Callers : pc[t] = "idle"

\* No caller is inside, and no two calls have overlapped so far: the state
\* between two calls of the single-threaded call model.  The record last is
\* kept in such states only.
Sequential == ~overlap /\ AllIdle

\* The object the last call ran on.
LastAuth == auth[last.self]

\* The expiry of a fetched token: the response's expires_in when the
\* response has the key, else the configured default.
ExpectedExpiry(c) ==
    IF c.has_expires_in THEN c.expires_in ELSE default_expiration

\* Time t lies inside the expiry window of the fetched token c (an optional);
\* a refresh whose response held a null data.token fetched no token.
InWindow(c, t) ==
    IF c = None THEN FALSE
    ELSE IF c[1].token = None THEN FALSE
    ELSE IF ExpectedExpiry(c[1]) = None THEN TRUE
    ELSE t < c[1].request_time + ExpectedExpiry(c[1])[1]

Expired(c, t) ==
    IF c = None THEN FALSE
    ELSE IF ExpectedExpiry(c[1]) = None THEN FALSE
    ELSE t >= c[1].request_time + ExpectedExpiry(c[1])[1]

\* The answers the claims call a failure: a transport failure, a failing
\* status, or a body without the key data.token.
FailedResponse(resp) ==
    resp.transport # "ok" \/ RaisesForStatus(resp.status) \/ resp.body.data # "token"

FailedPost == last.posts = 1 /\ FailedResponse(last.resp[1])

\* C1: a refresh that fails (status, transport, success body without
\* data.token) leaves access_token, expires_in and last_refreshed as they were;
\* a getToken() right after a failed refresh, inside the window of the token
\* fetched earlier, returns that token and does not raise.
C1_FailedRefreshLeavesState ==
    /\ FailedPost => LastAuth = last.pre
    /\ (last.op = "getToken" /\ last.priorFailed /\ InWindow(last.prior, last.preNow))
          => (last.outcome = "ok" /\ last.ret = last.prior[1].token)

C1_Witness ==
    /\ last.op = "getToken" /\ last.priorFailed
    /\ InWindow(last.prior, last.preNow)
    /\ last.preNow > last.prior[1].request_time
    /\ last.ret = last.prior[1].token

\* C2: every response with a failing status, whatever its body, ends the
\* refresh in RuntimeError 'Failed OAuth login' carrying the body.
C2_FailingStatusIsAuthError ==
    (last.posts = 1 /\ last.resp[1].transport = "ok" /\ RaisesForStatus(last.resp[1].status))
        => (last.outcome = "RuntimeError" /\ CarriesBody(last.resp[1]))

\* C3: a success status with a JSON body that has no data.token ends the
\* refresh in the same RuntimeError as a failing status.
C3_MissingTokenIsAuthError ==
    (last.posts = 1 /\ PassedStatus(last.resp[1]) /\ last.resp[1].body.json
        /\ last.resp[1].body.token = None)
        => last.outcome = "RuntimeError"

\* C4: a transport failure of the POST (connection failure, timeout) ends the
\* refresh in the same RuntimeError as a failing status.
C4_TransportFailureIsAuthError ==
    (last.posts = 1 /\ last.resp[1].transport # "ok") => last.outcome = "RuntimeError"

\* C5: after a successful refresh that stored T with expires_in = E at request
\* time R, a getToken() at a time before R + E returns T without a POST.
C5_CachedWithinWindow ==
    (last.op = "getToken" /\ last.prior # None /\ InWindow(last.prior, last.preNow)
        /\ ExpectedExpiry(last.prior[1]) # None)
        => (last.posts = 0 /\ last.ret = last.prior[1].token)

C5_Witness ==
    /\ last.op = "getToken" /\ last.prior # None
    /\ last.prior[1].expires_in # None
    /\ last.preNow > last.prior[1].request_time
    /\ last.preNow < last.prior[1].request_time + last.prior[1].expires_in[1]
    /\ last.posts = 0 /\ last.ret = last.prior[1].token

\* C6: once the clock has reached last_refreshed + expires_in, a getToken()
\* makes exactly one POST and, if that succeeds, returns the token of the new
\* response.
C6_ExpiredRefreshesOnce ==
    (last.op = "getToken" /\ Expired(last.prior, last.preNow))
        => /\ last.posts = 1
           /\ last.outcome = "ok" => last.ret = last.resp[1].body.token

C6_Witness ==
    /\ last.op = "getToken" /\ Expired(last.prior, last.preNow)
    /\ last.posts = 1 /\ last.outcome = "ok"
    /\ last.ret # last.prior[1].token
    /\ last.ret = LastAuth.access_token

\* C7: a token fetched from a response without expires_in, with no default
\* expiration configured, is returned by every later getToken() without a
\* POST, however far the clock has advanced.
C7_NeverExpires ==
    (last.op = "getToken" /\ last.prior # None /\ default_expiration = None
        /\ (last.prior # None => last.prior[1].token # None
                                  /\ last.prior[1].expires_in = None))
        => (last.posts = 0 /\ last.ret = last.prior[1].token)

C7_Witness ==
    /\ last.op = "getToken" /\ last.prior # None /\ default_expiration = None
    /\ ~last.prior[1].has_expires_in /\ last.prior[1].expires_in = None
    /\ last.preNow >= last.prior[1].request_time + MaxExpires
    /\ last.posts = 0

\* isValid() as the spec's invariant words it, on the stored fields.
ValidByFields(st, t) ==
    /\ st.access_token # None
    /\ (st.expires_in = None
        \/ (st.last_refreshed # None /\ t < st.last_refreshed[1] + st.expires_in[1]))

\* C8: isValid() is true exactly when access_token is present and expires_in
\* is absent or now < last_refreshed + expires_in; for every expires_in a
\* response carries, 0 included, what was fetched at request time R is
\* invalid once now >= R + expires_in, and a token is valid before that.
C8_ValidIffNotExpired ==
    /\ \A i \in 1..ninst : is_token_valid(auth[i], now) <=> ValidByFields(auth[i], now)
    /\ (Sequential /\ cur # None /\ (cur # None => cur[1].expires_in # None))
          => /\ now >= cur[1].request_time + cur[1].expires_in[1]
                   => ~is_token_valid(auth[cur[1].self], now)
             /\ (cur[1].token # None /\ now < cur[1].request_time + cur[1].expires_in[1])
                   => is_token_valid(auth[cur[1].self], now)

C8_Witness ==
    /\ Sequential
    /\ cur # None /\ (cur # None => cur[1].expires_in = Some(0))
    /\ auth[cur[1].self].access_token # None
    /\ auth[cur[1].self].expires_in = Some(0)
    /\ now = cur[1].request_time
    /\ ~is_token_valid(auth[cur[1].self], now)

\* C9: create_for_stream gives every stream the same authenticator object, so
\* a token fetched for one stream is returned to every stream, without a
\* POST, while it is valid.
C9_OneAuthenticator ==
    /\ ninst <= 1
    /\ \A s1, s2 \in Streams :
          (authOf[s1] # 0 /\ authOf[s2] # 0) => authOf[s1] = authOf[s2]
    /\ (last.op = "getToken" /\ InWindow(last.prior, last.preNow))
          => (last.posts = 0 /\ last.ret = last.prior[1].token)

C9_Witness ==
    /\ last.op = "getToken" /\ last.prior # None
    /\ (last.prior # None => last.prior[1].stream # last.stream)
    /\ InWindow(last.prior, last.preNow)
    /\ last.posts = 0 /\ last.ret = last.prior[1].token

\* C10: access_token is absent or is the data.token of a response that passed
\* status validation during a refresh.
C10_TokenFromValidatedResponse ==
    \A i \in 1..MaxInst :
        auth[i].access_token = None \/ auth[i].access_token[1] \in issued

C10_Witness ==
    /\ last.posts = 1 /\ last.resp # None
    /\ (last.resp # None =>
          /\ last.resp[1].transport = "ok" /\ RaisesForStatus(last.resp[1].status)
          /\ last.resp[1].body.token # None
          /\ LastAuth.access_token # None
          /\ LastAuth.access_token # last.resp[1].body.token
          /\ last.resp[1].body.token[1] \notin issued)

SuccessfulPost == last.posts = 1 /\ ~FailedResponse(last.resp[1])

\* C12: after a successful refresh expires_in is the response's top-level
\* expires_in if the response has that key, else the configured default
\* expiration (absent if none is configured); with a default configured and
\* no expires_in key in the response, the default is what is stored.  A key
\* that holds null is a key the response has: absent is what is stored.
C12_ExpiryFromResponseOrDefault ==
    SuccessfulPost =>
        /\ last.resp[1].body.has_expires_in
              => LastAuth.expires_in = last.resp[1].body.expires_in
        /\ ~last.resp[1].body.has_expires_in
              => LastAuth.expires_in = default_expiration

C12_Witness ==
    /\ SuccessfulPost /\ default_expiration = Some(DefaultExpiration)
    /\ (last.resp # None => ~last.resp[1].body.has_expires_in)
    /\ LastAuth.expires_in = Some(DefaultExpiration)

\* C13: a successful refresh that follows a successful refresh leaves all
\* three fields as the second call alone determines them: the second
\* response's token, its expires_in or (the key missing) the default, the
\* second request time.
C13_SecondRefreshReplacesAll ==
    (SuccessfulPost /\ last.pre.access_token # None) =>
        LastAuth = [access_token |-> last.resp[1].body.token,
                    expires_in |-> (IF last.resp[1].body.has_expires_in
                                    THEN last.resp[1].body.expires_in
                                    ELSE default_expiration),
                    last_refreshed |-> Some(last.preNow)]

C13_Witness ==
    /\ SuccessfulPost /\ last.op = "refresh" /\ ~last.priorFailed
    /\ last.prior # None
    /\ (last.prior # None => last.prior[1].request_time = last.preNow)
    /\ last.pre.access_token # None /\ last.pre.expires_in = Some(MaxExpires)
    /\ last.pre.access_token # LastAuth.access_token
    /\ (last.resp # None => ~last.resp[1].body.has_expires_in)
    /\ LastAuth.expires_in = default_expiration

\* A validity check that looks at last_refreshed where isValid() looks at
\* access_token.
ValidByLastRefreshed(st, t) ==
    IF st.last_refreshed = None THEN FALSE
    ELSE IF st.expires_in = None THEN TRUE
    ELSE t < st.last_refreshed[1] + st.expires_in[1]

\* C16: in the single-threaded call model, in every state between two calls
\* access_token is present exactly when last_refreshed is, so a validity check
\* keyed on last_refreshed agrees with the one keyed on access_token.  A
\* response whose data.token is null breaks it: line 50 stores None, lines 51
\* and 58 store the rest.
C16_TokenIffLastRefreshed ==
    Sequential =>
        \A i \in 1..MaxInst :
            /\ (auth[i].access_token # None) <=> (auth[i].last_refreshed # None)
            /\ is_token_valid(auth[i], now) <=> ValidByLastRefreshed(auth[i], now)

\* C11: after a successful refresh last_refreshed is the clock value read
\* before the POST was sent, not the arrival time of the answer; a token with
\* expires_in = E is valid until E after the request was sent and invalid
\* from then on.
C11_LastRefreshedIsRequestTime ==
    /\ cur # None => auth[cur[1].self].last_refreshed = Some(cur[1].request_time)
    /\ (SuccessfulPost /\ LastAuth.expires_in # None) =>
          /\ now >= last.preNow + LastAuth.expires_in[1] => ~is_token_valid(LastAuth, now)
          /\ (last.resp[1].body.token # None /\ now < last.preNow + LastAuth.expires_in[1])
                => is_token_valid(LastAuth, now)

C11_Witness ==
    /\ SuccessfulPost /\ last.arrived # None
    /\ (last.arrived # None => last.arrived[1] > last.preNow /\ now = last.arrived[1])
    /\ cur # None /\ (cur # None => cur[1].request_time = last.preNow)
    /\ LastAuth.last_refreshed = Some(last.preNow)
    /\ LastAuth.expires_in = Some(MaxExpires)
    /\ is_token_valid(LastAuth, now)

\* C14 as claimed: concurrent getToken() calls that find the token absent or
\* expired collapse into one POST, so two such calls are never under way with
\* a POST each.
C14_CallsCollapse ==
    \A t, u \in Callers :
        (t # u /\ call[t].op = "getToken" /\ call[u].op = "getToken")
            => ~(pc[t] # "idle" /\ pc[u] # "idle")

\* C14 as amended: the calls do not collapse; every getToken() that finds the
\* token absent or expired sends one POST of its own, also while another
\* caller's POST is under way, and a getToken() that finds it valid sends none.
C14_EveryStaleCallPosts ==
    \A t \in Callers :
        call[t].op = "getToken" => call[t].posts = (IF call[t].sawValid THEN 0 ELSE 1)

C14_Witness ==
    \A t \in Callers :
        call[t].op = "getToken" /\ ~call[t].sawValid /\ call[t].posts = 1
            /\ pc[t] = "inflight"

\* C15: with two callers' refreshes interleaved, once both have returned
\* access_token, expires_in and last_refreshed are the three values one
\* refresh wrote (the one that returned last, which wrote last_refreshed): no
\* token stands with the expiry or last_refreshed of another response.
C15_FieldsOfOneRefresh ==
    (AllIdle /\ cur # None) =>
        auth[cur[1].self] = [access_token |-> cur[1].token,
                             expires_in |-> ExpectedExpiry(cur[1]),
                             last_refreshed |-> Some(cur[1].request_time)]

TypeOK ==
    /\ ninst \in 0..MaxInst
    /\ now \in Times
    /\ issued \subseteq Tokens
    /\ nref \in 0..MaxRefreshes
    /\ overlap \in BOOLEAN
====
